---- MODULE Spec2Model ----
(***************************************************************************)
(* Model of libpcre-sys/build.rs: the build script that probes pkg-config  *)
(* for libpcre >= 8.20 and, when the probe misses, extracts the bundled    *)
(* pcre-8.37.tar.bz2 under OUT_DIR, drives autotools (unix) or cmake       *)
(* (otherwise) and prints cargo:rustc-link-search directives.              *)
(*                                                                         *)
(* A path string is modelled by the sequence str.split('/') of its         *)
(* segments: "out/s" is <<"out","s">>, "out/s/" is <<"out","s","">> and    *)
(* the empty string is <<"">>.  The filesystem is keyed by resolved paths  *)
(* (no empty segment), CreatedPathSet by the path strings themselves.      *)
(***************************************************************************)
EXTENDS Integers, Sequences, FiniteSets, TLC

\* ---------------------------------------------------------------- bounds
\* Longest archive the codec yields.
MaxEntries == 3
\* Longest link_paths vector the probe returns.
MaxLinkPaths == 2

\* ------------------------------------------------------------- constants
\* OUT_DIR, as split('/') of the path string.
out_dir == <<"out">>
\* format!("pcre-{}", BUNDLED_PCRE_VERSION)
BUNDLED_PCRE_DIR == "pcre-8.37"
\* Mode of a directory made by mkdir(0o777) under umask 022 (0755).
DefaultDirMode == 493
\* Mode of a file made by open(O_CREAT, 0o666) under umask 022 (0644).
DefaultFileMode == 420

\* Directories pkg-config may hand back as -L flags.
LinkDirs == { <<"", "usr", "lib">>, <<"", "opt", "lib">>, <<"", "lib64">> }
\* Entry names of the archive, as filename.split('/').
Names == { <<"s", "">>, <<"s", "c">>, <<"s", "d", "">>, <<"s", "d", "f">>, <<"t">> }
\* Mode bits recorded in tar headers (0700, 0755).
Modes == { 448, 493 }
\* Content streams of file entries.
Contents == { <<1>>, <<2, 2>> }

Last(s) == s[Len(s)]
Front(s) == SubSeq(s, 1, Len(s) - 1)

\* Names of depth two come in one version only.
Deep(name) == Len(name) > 2

\* What the codec can yield: a name comes in two versions, which differ in
\* mode and, for a file, in content and length.  A directory entry carries
\* no content.
Entries ==
  { e \in [name : Names, mode : Modes, content : Contents \cup {<<>>}] :
      /\ Last(e.name) = "" => e.content = <<>>
      /\ Last(e.name) # "" => e.content # <<>>
      /\ e.content = <<1>> => e.mode = 493
      /\ e.content = <<2, 2>> => e.mode = 448
      /\ Deep(e.name) => e.mode = 448 }

\* Names a tar header may also hold: "../x", "/e" and "s//c".
HostileNames == { <<"..", "x">>, <<"", "e">>, <<"s", "", "c">> }

HostileEntries ==
  { [name |-> n, mode |-> 448, content |-> <<2, 2>>] : n \in HostileNames }

AllEntries == Entries \cup HostileEntries

NoEntry == [name |-> <<>>, mode |-> 0, content |-> <<>>]

\* All sequences over S of length at most n.
SeqsUpTo(S, n) == UNION { [1..k -> S] : k \in 0..n }

\* ------------------------------------------------------------------ paths
\* The empty path string.
EmptyPath == <<"">>

\* PathBuf::push of one separator-free component: a separator is added unless
\* the buffer is empty or already ends with one.
Push(p, seg) == IF Last(p) = "" THEN Front(p) \o <<seg>> ELSE p \o <<seg>>

\* PathBuf::from_iter(parts): push every part onto an empty buffer.
RECURSIVE FromIterOnto(_, _)
FromIterOnto(p, parts) ==
  IF parts = <<>> THEN p ELSE FromIterOnto(Push(p, Head(parts)), Tail(parts))

FromIter(parts) == FromIterOnto(EmptyPath, parts)

\* Path::join of a relative path string.
Join(p, rel) == IF Last(p) = "" THEN Front(p) \o rel ELSE p \o rel

\* line 54-55: path_parts after the pop, and the popped filename.
PathParts(name) == Front(name)
FileName(name) == Last(name)

\* line 56
ParentPath(name) == Join(out_dir, FromIter(PathParts(name)))

\* Mutant of OutPath: the filename is joined to OUT_DIR, not to the parent.
OutPathFlat(name) == Join(out_dir, <<FileName(name)>>)

\* line 67
OutPath(name) == Join(ParentPath(name), <<FileName(name)>>)

\* Path resolution by the OS, relative to the directory OUT_DIR is named
\* from: empty segments (doubled or trailing separators) do not name
\* anything, and ".." steps back to the parent of what was resolved so far
\* (the tree holds no symbolic link).
RECURSIVE ResolveOnto(_, _)
ResolveOnto(acc, p) ==
  IF p = <<>> THEN acc
  ELSE IF Head(p) = "" THEN ResolveOnto(acc, Tail(p))
  ELSE IF Head(p) = ".."
    THEN ResolveOnto(IF acc = <<>> \/ Last(acc) = ".." THEN acc \o <<"..">>
                     ELSE Front(acc), Tail(p))
  ELSE ResolveOnto(acc \o <<Head(p)>>, Tail(p))

Resolve(p) == ResolveOnto(<<>>, p)

\* line 94 and line 147, as path strings
pcre_pathbuf == Join(out_dir, <<BUNDLED_PCRE_DIR>>)
lib_pathbuf == Join(out_dir, <<"lib">>)

\* ------------------------------------------------------------- filesystem
Exists(f, q) == q \in DOMAIN f
IsDir(f, q) == Exists(f, q) /\ f[q].kind = "dir"
IsFile(f, q) == Exists(f, q) /\ f[q].kind = "file"

DirNode == [kind |-> "dir", mode |-> DefaultDirMode, content |-> <<>>]
FileNode == [kind |-> "file", mode |-> DefaultFileMode, content |-> <<>>]

\* The tree under an empty OUT_DIR.
EmptyRoot == (out_dir :> DirNode)

\* mkdir(2): "exists" for any existing node, "err" when the parent is not a
\* directory, otherwise the directory is made.
MkdirResult(f, q) ==
  IF Exists(f, q) THEN "exists"
  ELSE IF Len(q) > 1 /\ ~IsDir(f, Front(q)) THEN "err"
  ELSE "ok"

Mkdir(f, q) == IF MkdirResult(f, q) = "ok" THEN f @@ (q :> DirNode) ELSE f

\* fs::create_dir_all: Ok at once on an existing directory, otherwise the
\* parent first and then create_dir of the path itself.
RECURSIVE CreateDirAllResult(_, _)
CreateDirAllResult(f, q) ==
  IF q = <<>> \/ IsDir(f, q) THEN "ok"
  ELSE IF Len(q) > 1 /\ CreateDirAllResult(f, Front(q)) # "ok"
    THEN CreateDirAllResult(f, Front(q))
  ELSE IF Exists(f, q) THEN "exists"
  ELSE "ok"

RECURSIVE CreateDirAll(_, _)
CreateDirAll(f, q) ==
  IF q = <<>> \/ IsDir(f, q) THEN f
  ELSE IF Len(q) > 1 /\ CreateDirAllResult(f, Front(q)) # "ok"
    THEN CreateDirAll(f, Front(q))
  ELSE LET g == IF Len(q) > 1 THEN CreateDirAll(f, Front(q)) ELSE f
       IN  Mkdir(g, q)

\* open(O_WRONLY | O_CREAT) without O_TRUNC.
OpenResult(f, q) ==
  IF IsDir(f, q) THEN "err"
  ELSE IF Len(q) > 1 /\ ~IsDir(f, Front(q)) THEN "err"
  ELSE "ok"

OpenCreate(f, q) == IF Exists(f, q) THEN f ELSE f @@ (q :> FileNode)

\* io::copy into a file opened at offset 0: the bytes written replace the
\* same-length prefix of what the file held; nothing is truncated.
Overwrite(old, new) ==
  IF Len(new) >= Len(old) THEN new
  ELSE new \o SubSeq(old, Len(new) + 1, Len(old))

CopyInto(f, q, bytes) ==
  [f EXCEPT ![q].content = Overwrite(f[q].content, bytes)]

\* chmod(2)
Chmod(f, q, mode) == IF Exists(f, q) THEN [f EXCEPT ![q].mode = mode] ELSE f


\* ------------------------------------------------------------------ state
VARIABLES
  pc,             \* position of main(): the statement about to run
  unix,           \* cfg!(unix)
  probe,          \* outcome of the pkg-config probe: "none", "found", "notfound"
  located,        \* pkg_config_lib.link_paths as the probe returned it
  todo,           \* link paths the loop of line 33 has not printed yet
  directives,     \* cargo:rustc-link-search lines printed so far
  entries,        \* archive entries the codec has yielded so far
  cur,            \* the entry of the running loop iteration
  created_paths,  \* BTreeSet<OsString> of line 49
  fs,             \* the tree under OUT_DIR
  calls,          \* filesystem calls made so far, in order
  steps           \* external commands run so far, in order, with their outcome

vars == <<pc, unix, probe, located, todo, directives, entries, cur,
          created_paths, fs, calls, steps>>

\* Link path vectors without repetition: pkg-config prints each -L once.
LinkPathVecs ==
  { v \in SeqsUpTo(LinkDirs, MaxLinkPaths) :
      \A i, j \in DOMAIN v : v[i] = v[j] => i = j }

\* println!("cargo:rustc-link-search=native={}", path.display())
Directive(p) == [key |-> "rustc-link-search", kind |-> "native", path |-> p]

Init ==
  /\ pc = "probe"
  /\ unix \in BOOLEAN
  /\ probe = "none"
  /\ located = <<>>
  /\ todo = <<>>
  /\ directives = <<>>
  /\ entries = <<>>
  /\ cur = NoEntry
  /\ created_paths = {}
  /\ fs = EmptyRoot
  /\ calls = <<>>
  /\ steps = <<>>

\* ------------------------------------------------------------ the probe
\* Mutant of ProbeArm: the bundled build runs whatever the probe said.
ProbeArmAlwaysBuilds(found) == "open"

\* line 31-37: the arm of the match taken for a probe outcome.
ProbeArm(found) == IF found THEN "report" ELSE "open"

\* line 31: pkg_config::Config::new().atleast_version("8.20").find("libpcre")
Probe ==
  /\ pc = "probe"
  /\ \/ \E v \in LinkPathVecs :
          /\ probe' = "found"
          /\ located' = v
          /\ todo' = v
          /\ pc' = ProbeArm(TRUE)
     \/ /\ probe' = "notfound"
        /\ located' = <<>>
        /\ todo' = <<>>
        /\ pc' = ProbeArm(FALSE)
  /\ UNCHANGED <<unix, directives, entries, cur, created_paths, fs, calls, steps>>

\* Mutant of RestOfLinkPaths: the loop stops after the first path.
RestOfLinkPathsNone(v) == <<>>

\* line 33: what is left of the iteration after one path was printed.
RestOfLinkPaths(v) == Tail(v)

\* line 33-35: one iteration of the loop over link_paths.
PrintLinkPath ==
  /\ pc = "report"
  /\ todo # <<>>
  /\ directives' = Append(directives, Directive(Head(todo)))
  /\ todo' = RestOfLinkPaths(todo)
  /\ UNCHANGED <<pc, unix, probe, located, entries, cur, created_paths, fs, calls, steps>>

\* line 35-36, 191-192: the loop is exhausted and main returns.
EndLinkPaths ==
  /\ pc = "report"
  /\ todo = <<>>
  /\ pc' = "done"
  /\ UNCHANGED <<unix, probe, located, todo, directives, entries, cur,
                 created_paths, fs, calls, steps>>

\* ---------------------------------------------------------- the extractor
\* One record of the call log; entry is the index of the archive entry the
\* call was made for.
Call(op, path, res) ==
  [op |-> op, path |-> path, res |-> res, entry |-> Len(entries)]

\* BTreeSet::insert: the set afterwards, and the bool it returns.
Insert(set, p) == set \cup {p}
Inserted(set, p) == p \notin set

\* Mutant of DirErrorIsFatal: no error of a directory creation panics.
DirErrorIsFatalNever(res) == FALSE

\* Mutant of DirErrorIsFatal: the AlreadyExists test is missing.
DirErrorIsFatalAlways(res) == res # "ok"

\* line 60, 71: e.kind() != ErrorKind::AlreadyExists under `if let Err(e)`.
DirErrorIsFatal(res) == res \notin {"ok", "exists"}

\* line 89: the value libc::chmod returns is dropped.
ChmodErrorIsFatal(res) == FALSE

\* Mutant of Pipeline: the condition of line 96 is inverted.
PipelineSwapped(isUnix) == IF isUnix THEN "cmake" ELSE "autoreconf"

\* line 96: cfg!(unix) picks the pipeline.
Pipeline(isUnix) == IF isUnix THEN "autoreconf" ELSE "cmake"

\* line 38-47, 50: the environment is read, the archive is opened and
\* files_mut() is taken; every unwrap() of these lines may panic.
OpenArchive ==
  /\ pc = "open"
  /\ \E io \in {"ok", "err"} : pc' = IF io = "ok" THEN "next" ELSE "panicked"
  /\ UNCHANGED <<unix, probe, located, todo, directives, entries, cur,
                 created_paths, fs, calls, steps>>

\* line 50-52: the iterator yields the next entry, ends, or yields an Err
\* that file.unwrap() turns into a panic.
NextEntryFrom(universe) ==
  /\ pc = "next"
  /\ \/ /\ Len(entries) < MaxEntries
        /\ \E e \in universe :
             /\ entries' = Append(entries, e)
             /\ cur' = e
        /\ pc' = "parent"
     \/ /\ pc' = Pipeline(unix)
        /\ UNCHANGED <<entries, cur>>
     \/ /\ pc' = "panicked"
        /\ UNCHANGED <<entries, cur>>
  /\ UNCHANGED <<unix, probe, located, todo, directives, created_paths, fs,
                 calls, steps>>

\* The archive holds well-formed names only.
NextEntry == NextEntryFrom(Entries)

\* The archive may hold any name a tar header can.
NextEntryAny == NextEntryFrom(AllEntries)

\* Mutant of ParentNeeded: a parent of one segment is taken for no parent.
ParentNeededDeepOnly(parts) == Len(parts) > 1

\* line 57: !path_parts.is_empty()
ParentNeeded(parts) == parts # <<>>

\* line 54-65: the parent directory of the entry.
ParentDir ==
  /\ pc = "parent"
  /\ LET pp == ParentPath(cur.name) IN
       IF ParentNeeded(PathParts(cur.name)) /\ Inserted(created_paths, pp)
       THEN \E io \in {"ok", "err"} :
              LET res == IF io = "err" THEN "err"
                         ELSE CreateDirAllResult(fs, Resolve(pp))
              IN  /\ created_paths' = Insert(created_paths, pp)
                  /\ fs' = IF io = "err" THEN fs ELSE CreateDirAll(fs, Resolve(pp))
                  /\ calls' = Append(calls, Call("create_dir_all", pp, res))
                  /\ pc' = IF DirErrorIsFatal(res) THEN "panicked" ELSE "own"
       ELSE /\ pc' = "own"
            /\ UNCHANGED <<created_paths, fs, calls>>
  /\ UNCHANGED <<unix, probe, located, todo, directives, entries, cur, steps>>

\* Mutant of IsDirEntry: every entry is taken for a file.
IsDirEntryNever(filename) == FALSE

\* line 68: filename.is_empty()
IsDirEntry(filename) == filename = ""

\* line 68-75: an entry whose popped filename is empty is a directory.
MakeDir ==
  /\ pc = "own"
  /\ IsDirEntry(FileName(cur.name))
  /\ LET op == OutPath(cur.name) IN
       IF Inserted(created_paths, op)
       THEN \E io \in {"ok", "err"} :
              LET res == IF io = "err" THEN "err"
                         ELSE MkdirResult(fs, Resolve(op))
              IN  /\ created_paths' = Insert(created_paths, op)
                  /\ fs' = IF io = "err" THEN fs ELSE Mkdir(fs, Resolve(op))
                  /\ calls' = Append(calls, Call("create_dir", op, res))
                  /\ pc' = IF DirErrorIsFatal(res) THEN "panicked" ELSE "chmod"
       ELSE /\ pc' = "chmod"
            /\ UNCHANGED <<created_paths, fs, calls>>
  /\ UNCHANGED <<unix, probe, located, todo, directives, entries, cur, steps>>

\* line 76-81: a file entry is opened (created when missing) and the content
\* stream is copied into it; a failing open or copy panics.
WriteFile ==
  /\ pc = "own"
  /\ ~IsDirEntry(FileName(cur.name))
  /\ LET op == OutPath(cur.name)
         q == Resolve(op)
     IN  \E io \in {"ok", "open_err", "copy_err"} :
           LET opened == IF io = "open_err" THEN "err" ELSE OpenResult(fs, q) IN
             IF opened = "err"
             THEN /\ calls' = Append(calls, Call("open", op, "err"))
                  /\ pc' = "panicked"
                  /\ fs' = fs
             ELSE IF io = "copy_err"
             THEN /\ calls' = calls \o <<Call("open", op, "ok"), Call("copy", op, "err")>>
                  /\ pc' = "panicked"
                  /\ fs' = OpenCreate(fs, q)
             ELSE /\ calls' = calls \o <<Call("open", op, "ok"), Call("copy", op, "ok")>>
                  /\ pc' = "chmod"
                  /\ fs' = CopyInto(OpenCreate(fs, q), q, cur.content)
  /\ UNCHANGED <<unix, probe, located, todo, directives, entries, cur,
                 created_paths, steps>>

\* Mutant of ChmodApplies: the block of line 82 runs on every target.
ChmodAppliesAlways(isUnix) == TRUE

\* line 82: cfg!(unix)
ChmodApplies(isUnix) == isUnix

\* line 82-91 on a unix target: chmod(out_pathbuf, mode).
ChmodEntry ==
  /\ pc = "chmod"
  /\ ChmodApplies(unix)
  /\ LET op == OutPath(cur.name)
         q == Resolve(op)
     IN  \E io \in {"ok", "err"} :
           LET res == IF io = "err" \/ ~Exists(fs, q) THEN "err" ELSE "ok" IN
             /\ fs' = IF res = "ok" THEN Chmod(fs, q, cur.mode) ELSE fs
             /\ calls' = Append(calls, Call("chmod", op, res))
             /\ pc' = IF ChmodErrorIsFatal(res) THEN "panicked" ELSE "next"
  /\ UNCHANGED <<unix, probe, located, todo, directives, entries, cur,
                 created_paths, steps>>

\* line 82 on any other target: the block is skipped.
SkipChmod ==
  /\ pc = "chmod"
  /\ ~ChmodApplies(unix)
  /\ pc' = "next"
  /\ UNCHANGED <<unix, probe, located, todo, directives, entries, cur,
                 created_paths, fs, calls, steps>>

\* ------------------------------------------------------------ the toolchain
\* What Command::status() can give: exit status zero, a non-zero exit
\* status, Err of kind NotFound, any other Err.
StepOutcomes == {"ok", "nonzero", "notfound", "err"}

PosixPipeline == <<"autoreconf", "./configure", "make install">>
CMakePipeline == <<"cmake .", "cmake --build .">>

\* Mutant of NextOf: after ./configure the pipeline starts over.
NextOfStartsOver(cmd) ==
  CASE cmd = "autoreconf" -> "configure"
    [] cmd = "./configure" -> "autoreconf"
    [] cmd = "make install" -> "print_lib"
    [] cmd = "cmake ." -> "cmake_build"
    [] cmd = "cmake --build ." -> "print_src"

\* Mutant of NextOf: main returns right after `make install`.
NextOfSkipsReport(cmd) ==
  CASE cmd = "autoreconf" -> "configure"
    [] cmd = "./configure" -> "make"
    [] cmd = "make install" -> "done"
    [] cmd = "cmake ." -> "cmake_build"
    [] cmd = "cmake --build ." -> "print_src"

\* The statement that follows a command which ran successfully.
NextOf(cmd) ==
  CASE cmd = "autoreconf" -> "configure"
    [] cmd = "./configure" -> "make"
    [] cmd = "make install" -> "print_lib"
    [] cmd = "cmake ." -> "cmake_build"
    [] cmd = "cmake --build ." -> "print_src"

\* Mutant of AfterStep: the status.success() test is missing.
AfterStepIgnoresStatus(res, next) ==
  IF res \in {"ok", "nonzero"} THEN next ELSE "panicked"

\* line 99-110 and its four repetitions: an Err of status() panics, and so
\* does a status that is not success().
AfterStep(res, next) == IF res = "ok" THEN next ELSE "panicked"

RunStep(at, cmd) ==
  /\ pc = at
  /\ \E o \in StepOutcomes :
       /\ steps' = Append(steps, [cmd |-> cmd, cwd |-> pcre_pathbuf, res |-> o])
       /\ pc' = AfterStep(o, NextOf(cmd))
  /\ UNCHANGED <<unix, probe, located, todo, directives, entries, cur,
                 created_paths, fs, calls>>

\* line 97-110
Autoreconf == RunStep("autoreconf", "autoreconf")
\* line 112-129
Configure == RunStep("configure", "./configure")
\* line 131-145
MakeInstall == RunStep("make", "make install")
\* line 149-171
CMakeConfigure == RunStep("cmake", "cmake .")
\* line 173-186
CMakeBuild == RunStep("cmake_build", "cmake --build .")

\* Mutant of LibraryOutputPath: both pipelines report the source directory.
LibraryOutputPathSource(isUnix) == pcre_pathbuf

\* line 147, 188: the directory each pipeline reports.
LibraryOutputPath(isUnix) == IF isUnix THEN lib_pathbuf ELSE pcre_pathbuf

\* line 147
PrintLibDir ==
  /\ pc = "print_lib"
  /\ directives' = Append(directives, Directive(LibraryOutputPath(TRUE)))
  /\ pc' = "done"
  /\ UNCHANGED <<unix, probe, located, todo, entries, cur, created_paths, fs,
                 calls, steps>>

\* line 188
PrintSourceDir ==
  /\ pc = "print_src"
  /\ directives' = Append(directives, Directive(LibraryOutputPath(FALSE)))
  /\ pc' = "done"
  /\ UNCHANGED <<unix, probe, located, todo, entries, cur, created_paths, fs,
                 calls, steps>>

Next ==
  \/ Probe
  \/ PrintLinkPath
  \/ EndLinkPaths
  \/ OpenArchive
  \/ NextEntry
  \/ ParentDir
  \/ MakeDir
  \/ WriteFile
  \/ ChmodEntry
  \/ SkipChmod
  \/ Autoreconf
  \/ Configure
  \/ MakeInstall
  \/ CMakeConfigure
  \/ CMakeBuild
  \/ PrintLibDir
  \/ PrintSourceDir

Spec == Init /\ [][Next]_vars

\* The same program reading an archive that is not restricted to
\* well-formed names.
NextAny ==
  \/ Probe
  \/ PrintLinkPath
  \/ EndLinkPaths
  \/ OpenArchive
  \/ NextEntryAny
  \/ ParentDir
  \/ MakeDir
  \/ WriteFile
  \/ ChmodEntry
  \/ SkipChmod
  \/ Autoreconf
  \/ Configure
  \/ MakeInstall
  \/ CMakeConfigure
  \/ CMakeBuild
  \/ PrintLibDir
  \/ PrintSourceDir

SpecAny == Init /\ [][NextAny]_vars

\* ================================================================ claims
Range(f) == { f[i] : i \in DOMAIN f }
StepCmds == [i \in DOMAIN steps |-> steps[i].cmd]
Terminated == pc \in {"done", "panicked"}

\* C1: whenever the probe returned Found, no archive entry has been read, no
\* filesystem call has been made, the tree under OUT_DIR is untouched and no
\* external command has been run, on either OS family.
C1_FoundSkipsBundledBuild ==
  probe = "found" =>
    /\ entries = <<>>
    /\ calls = <<>>
    /\ created_paths = {}
    /\ fs = EmptyRoot
    /\ steps = <<>>
    /\ pc \in {"report", "done"}

C1_Witness == probe = "found" /\ pc = "done" /\ Len(directives) = 2

\* C2 as stated: a run whose probe missed has, when it ends, run exactly
\* one pipeline and printed exactly one directive, the pipeline's path.
C2_Original ==
  (Terminated /\ probe = "notfound") =>
    /\ \/ StepCmds = PosixPipeline
       \/ StepCmds = CMakePipeline
    /\ Len(directives) = 1

\* C2 (amended): after a probe miss only commands of the pipeline of the
\* target's OS family are ever run, in pipeline order, never one of the other
\* pipeline, and at most one directive is printed; a run that ends
\* successfully has run that whole pipeline and printed exactly one
\* directive, the pipeline's resulting path.
C2_OnePipelineByFamily ==
  probe = "notfound" =>
    LET P == IF unix THEN PosixPipeline ELSE CMakePipeline IN
      /\ Len(steps) <= Len(P)
      /\ \A i \in DOMAIN steps : steps[i].cmd = P[i]
      /\ Len(directives) <= 1
      /\ pc = "done" =>
           /\ StepCmds = P
           /\ Len(directives) = 1
           /\ directives[1].path =
                (IF unix THEN <<"out", "lib">> ELSE <<"out", "pcre-8.37">>)

C2_Witness ==
  /\ pc = "done"
  /\ probe = "notfound"
  /\ StepCmds = CMakePipeline
  /\ Len(directives) = 1

\* C3: the commands run so far are an initial part of one pipeline, every
\* command but the last exited with status zero, and once a command is
\* missing or exits non-zero the run has panicked with no later command and
\* no directive; with autoreconf missing nothing but autoreconf was tried.
C3_StepsGated ==
  /\ \E P \in {PosixPipeline, CMakePipeline} :
       /\ Len(steps) <= Len(P)
       /\ \A i \in DOMAIN steps : steps[i].cmd = P[i]
  /\ \A i \in DOMAIN steps : i < Len(steps) => steps[i].res = "ok"
  /\ (steps # <<>> /\ steps[Len(steps)].res # "ok") =>
       pc = "panicked" /\ directives = <<>>
  /\ (steps # <<>> /\ steps[1].cmd = "autoreconf" /\ steps[1].res = "notfound") =>
       StepCmds = <<"autoreconf">>

C3_Witness ==
  /\ unix
  /\ pc = "panicked"
  /\ Len(steps) = 1
  /\ steps[1].cmd = "autoreconf"
  /\ steps[1].res = "notfound"

\* C4: on the bundled-build path a directive is printed only after the last
\* command of the pipeline exited with status zero, and it is the single
\* directive OUT_DIR/lib on unix and OUT_DIR/pcre-8.37 otherwise.
C4_ReportedLibraryPath ==
  (probe = "notfound" /\ directives # <<>>) =>
    /\ directives =
         << [key |-> "rustc-link-search", kind |-> "native",
             path |-> IF unix THEN <<"out", "lib">> ELSE <<"out", "pcre-8.37">>] >>
    /\ steps # <<>>
    /\ steps[Len(steps)].res = "ok"
    /\ steps[Len(steps)].cmd = (IF unix THEN "make install" ELSE "cmake --build .")
    /\ pc = "done"

C4_Witness ==
  /\ unix
  /\ probe = "notfound"
  /\ pc = "done"
  /\ directives # <<>>
  /\ entries # <<>>

\* C5: when a run that found the library ends, every located path has
\* exactly one link-search directive and every directive is one of a located
\* path.
C5_OneDirectivePerPath ==
  (probe = "found" /\ pc = "done") =>
    /\ \A p \in Range(located) :
         Cardinality({ i \in DOMAIN directives : directives[i].path = p }) = 1
    /\ \A i \in DOMAIN directives :
         /\ directives[i].path \in Range(located)
         /\ directives[i].key = "rustc-link-search"
         /\ directives[i].kind = "native"

C5_Witness ==
  /\ probe = "found"
  /\ pc = "done"
  /\ located = << <<"", "usr", "lib">> >>
  /\ Len(directives) = 1
  /\ directives[1].path = <<"", "usr", "lib">>

\* C6 as stated: a run that ends successfully has printed at least one
\* directive.
C6_Original == pc = "done" => Len(directives) >= 1

\* C6 (amended): a run that ends successfully has passed the report step: on
\* the bundled-build path exactly one directive was printed, on the Found
\* path one directive per link path the probe returned, which is none when
\* the probe returned no link path.
C6_ReportNeverOmitted ==
  pc = "done" =>
    /\ probe \in {"found", "notfound"}
    /\ probe = "notfound" => Len(directives) = 1
    /\ probe = "found" => Len(directives) = Len(located)

C6_Witness == pc = "done" /\ probe = "found" /\ located = <<>> /\ directives = <<>>

\* The destination of an entry name under OUT_DIR, as the filesystem sees it.
Dest(name) == out_dir \o SelectSeq(name, LAMBDA seg : seg # "")

\* Every proper ancestor of q is a directory of f.
ParentChainExists(f, q) == \A k \in 1..(Len(q) - 1) : IsDir(f, SubSeq(q, 1, k))

\* The loop over the archive ended without a panic.
ExtractionDone ==
  /\ probe = "notfound"
  /\ pc \notin {"probe", "open", "next", "parent", "own", "chmod"}
  /\ pc = "panicked" => steps # <<>>

\* C7: whenever control reaches the open of a file entry, and wherever a
\* copy into a file has been made, every ancestor of the destination is a
\* directory under OUT_DIR, whether or not a directory entry for it was read
\* before.
C7_ParentChainBeforeWrite ==
  /\ (pc = "own" /\ Last(cur.name) # "") =>
       ParentChainExists(fs, Dest(cur.name))
  /\ \A i \in DOMAIN calls :
       calls[i].op = "copy" =>
         /\ ParentChainExists(fs, Dest(entries[calls[i].entry].name))
         /\ IsFile(fs, Dest(entries[calls[i].entry].name))

C7_Witness ==
  /\ Len(entries) = 1
  /\ entries[1].name = <<"s", "d", "f">>
  /\ \E i \in DOMAIN calls : calls[i].op = "copy" /\ calls[i].res = "ok"
  /\ IsFile(fs, <<"out", "s", "d", "f">>)

\* The directories and files the names of the entries read so far stand
\* for: every entry path with its kind, and every ancestor as a directory.
ExpectedDirs ==
  {out_dir} \cup
  UNION { { SubSeq(Dest(e.name), 1, k) :
              k \in 1..(Len(Dest(e.name)) - (IF Last(e.name) = "" THEN 0 ELSE 1)) } :
          e \in Range(entries) }

ExpectedFiles == { Dest(e.name) : e \in { x \in Range(entries) : Last(x.name) # "" } }

\* C8: after a successful extraction into an empty OUT_DIR the tree holds
\* exactly the paths of the archive: a directory for every directory entry
\* and every ancestor of an entry, a file for every file entry, nothing else.
C8_TreeIsArchiveStructure ==
  ExtractionDone =>
    /\ DOMAIN fs = ExpectedDirs \cup ExpectedFiles
    /\ \A q \in ExpectedDirs : fs[q].kind = "dir"
    /\ \A q \in ExpectedFiles : fs[q].kind = "file"

C8_Witness ==
  /\ ExtractionDone
  /\ pc = "done"
  /\ Len(entries) = 3
  /\ entries[1].name = <<"s", "d", "f">>
  /\ entries[2].name = <<"s", "">>
  /\ entries[3].name = <<"t">>
  /\ DOMAIN fs = { <<"out">>, <<"out", "s">>, <<"out", "s", "d">>,
                   <<"out", "s", "d", "f">>, <<"out", "t">> }

\* C9: on a unix target, after a successful extraction the mode of every
\* path an entry was read for equals the mode recorded in the last such
\* entry.
C9_ModesRestored ==
  (unix /\ ExtractionDone) =>
    \A i \in DOMAIN entries :
      (\A j \in DOMAIN entries : Dest(entries[j].name) = Dest(entries[i].name) => j <= i)
        => fs[Dest(entries[i].name)].mode = entries[i].mode

\* C10, the state part: a failed create_dir_all, create_dir, open or copy is
\* the last call of the run, made for the last entry read, and the run has
\* panicked with no command run and no directive printed.
C10_FatalEndsRun ==
  \A i \in DOMAIN calls :
    (calls[i].res = "err" /\ calls[i].op # "chmod") =>
      /\ i = Len(calls)
      /\ pc = "panicked"
      /\ calls[i].entry = Len(entries)
      /\ steps = <<>>
      /\ directives = <<>>

\* C10, the step part: a directory creation that ends "already exists" is
\* followed by the next statement of the same loop iteration.
C10_ExistsSwallowed ==
  (calls' # calls /\ calls'[Len(calls')].res = "exists") =>
    /\ calls'[Len(calls')].op \in {"create_dir_all", "create_dir"}
    /\ pc' \in {"own", "chmod"}
    /\ cur' = cur
    /\ entries' = entries

\* C10: "already exists" from a directory creation is swallowed and the
\* iteration goes on with the same entry; any other failure of directory
\* creation, open or copy ends the run at once.
C10_ErrorPolicy == []C10_FatalEndsRun /\ [][C10_ExistsSwallowed]_vars

C10_Witness ==
  /\ pc = "done"
  /\ \E i \in DOMAIN calls : calls[i].op = "create_dir" /\ calls[i].res = "exists"

\* C11: on a unix target a failed chmod is fatal: it is the last call of
\* the run, the run has panicked, no later entry was read, no command was
\* run and no directive was printed.
C11_ChmodFailureFatal ==
  \A i \in DOMAIN calls :
    (calls[i].op = "chmod" /\ calls[i].res = "err") =>
      /\ i = Len(calls)
      /\ pc = "panicked"
      /\ calls[i].entry = Len(entries)
      /\ steps = <<>>
      /\ directives = <<>>

\* C12: for an entry whose name ends in '/', no open and no copy is ever
\* made, no file stands at its path, and once its iteration is past line 75
\* a directory stands at its path.
C12_TrailingSlashIsDirectory ==
  \A i \in DOMAIN entries :
    (Len(entries[i].name) > 1 /\ Last(entries[i].name) = "") =>
      /\ \A k \in DOMAIN calls :
           calls[k].entry = i => calls[k].op \notin {"open", "copy"}
      /\ ~IsFile(fs, Dest(entries[i].name))
      /\ (i < Len(entries) \/ pc \notin {"parent", "own", "panicked"}) =>
           IsDir(fs, Dest(entries[i].name))

C12_Witness ==
  /\ Len(entries) = 1
  /\ entries[1].name = <<"s", "d", "">>
  /\ pc = "next"
  /\ IsDir(fs, <<"out", "s", "d">>)
  /\ \E k \in DOMAIN calls : calls[k].op = "create_dir" /\ calls[k].entry = 1

\* The tree one entry leaves behind when every call succeeds: ancestors,
\* then the directory or the file with its content, then the mode on unix.
TreeAfterEntry(f, e, isUnix) ==
  LET q == Dest(e.name)
      g == CreateDirAll(f, Front(q))
      h == IF Last(e.name) = "" THEN CreateDirAll(g, q)
           ELSE CopyInto(OpenCreate(g, q), q, e.content)
  IN  IF isUnix THEN Chmod(h, q, e.mode) ELSE h

\* The tree an archive determines, entry after entry from an empty OUT_DIR.
RECURSIVE TreeOfArchive(_, _)
TreeOfArchive(es, isUnix) ==
  IF es = <<>> THEN EmptyRoot
  ELSE TreeAfterEntry(TreeOfArchive(Front(es), isUnix), Last(es), isUnix)

\* C13: the tree a successful extraction into an empty OUT_DIR leaves is
\* determined by the archive and the target alone (paths, kinds, contents
\* and, on unix, modes), so two extractions of one archive into fresh roots
\* end with the same tree.
C13_TreeDeterminedByArchive ==
  ExtractionDone => fs = TreeOfArchive(entries, unix)

\* C14: no two directory-creation calls of a run (create_dir_all or
\* create_dir) are made for the same directory.
C14_NoDirectoryCreatedTwice ==
  \A i, j \in DOMAIN calls :
    ( /\ calls[i].op \in {"create_dir_all", "create_dir"}
      /\ calls[j].op \in {"create_dir_all", "create_dir"}
      /\ Resolve(calls[i].path) = Resolve(calls[j].path) ) => i = j

\* C15, in one state: on a target that is not unix no chmod call was made;
\* on unix every chmod call was made for the path of its entry, after the
\* successful copy of that entry (a file) or with its directory in place (a
\* directory), and no other call for that entry follows it.
C15_ChmodOrder ==
  IF ~unix THEN \A i \in DOMAIN calls : calls[i].op # "chmod"
  ELSE
    \A i \in DOMAIN calls :
      calls[i].op = "chmod" =>
        LET e == entries[calls[i].entry] IN
          /\ Resolve(calls[i].path) = Dest(e.name)
          /\ Last(e.name) # "" =>
               \E j \in 1..(i - 1) :
                 /\ calls[j].entry = calls[i].entry
                 /\ calls[j].op = "copy"
                 /\ calls[j].res = "ok"
          /\ Last(e.name) = "" => IsDir(fs, Dest(e.name))
          /\ \A k \in (i + 1)..Len(calls) : calls[k].entry > calls[i].entry

\* C15: at every moment of every run, permission restoration has been
\* attempted only on unix and, for each entry, only after its content was
\* written or its directory created.
C15_ChmodOnlyUnixAfterContent == []C15_ChmodOrder

C15_Witness ==
  /\ unix
  /\ Len(calls) = 3
  /\ calls[2].op = "copy"
  /\ calls[2].res = "ok"
  /\ calls[3].op = "chmod"
  /\ calls[3].entry = calls[2].entry

\* The calls whose failure panics: chmod is not one of them (see C11).
FatalCall(c) == c.op \in {"create_dir_all", "create_dir", "open", "copy"} /\ c.res = "err"

\* The iteration of entry i has run to its end.
EntryProcessed(i) ==
  /\ Last(entries[i].name) # "" =>
       \E k \in DOMAIN calls :
         calls[k].entry = i /\ calls[k].op = "copy" /\ calls[k].res = "ok"
  /\ Last(entries[i].name) = "" => IsDir(fs, Dest(entries[i].name))
  /\ unix => \E k \in DOMAIN calls : calls[k].entry = i /\ calls[k].op = "chmod"

\* C16, in one state: on the bundled-build path a command has been run
\* only when the loop over the archive is over, every entry read was
\* processed to the end and no call failed fatally; a directive has been
\* printed only when the whole pipeline ran and its last command succeeded.
C16_PhaseOrder ==
  probe = "notfound" =>
    /\ steps # <<>> =>
         /\ pc \notin {"probe", "open", "next", "parent", "own", "chmod"}
         /\ \A k \in DOMAIN calls : ~FatalCall(calls[k])
         /\ \A i \in DOMAIN entries : EntryProcessed(i)
    /\ (\E k \in DOMAIN calls : FatalCall(calls[k])) => steps = <<>> /\ pc = "panicked"
    /\ directives # <<>> =>
         /\ StepCmds \in {PosixPipeline, CMakePipeline}
         /\ \A i \in DOMAIN steps : steps[i].res = "ok"

C17_NothingTwice ==
  /\ pc = "probe" <=> probe = "none"
  /\ \A i, j \in DOMAIN steps : steps[i].cmd = steps[j].cmd => i = j
  /\ \A i \in DOMAIN steps : steps[i].res # "ok" => i = Len(steps) /\ pc = "panicked"
  /\ \A i \in 1..(Len(calls) - 1) : calls[i].entry <= calls[i + 1].entry
  /\ \A i \in DOMAIN calls :
       \A j \in (i + 1)..Len(calls) :
         calls[i].entry # calls[j].entry \/ calls[i].op # calls[j].op
  /\ calls # <<>> => calls[1].entry >= 1 /\ calls[Len(calls)].entry <= Len(entries)
  /\ pc = "parent" => \A k \in DOMAIN calls : calls[k].entry < Len(entries)
  /\ pc = "own" =>
       \A k \in DOMAIN calls :
         calls[k].entry < Len(entries) \/ calls[k].op = "create_dir_all"

\* C17, in one step: once the probe has answered, its answer stands, and
\* the entries read so far are never read again: the archive only grows by
\* the next entry.
C17_NoStepBack ==
  /\ probe # "none" => (probe' = probe /\ located' = located)
  /\ \/ entries' = entries
     \/ Len(entries') = Len(entries) + 1 /\ SubSeq(entries', 1, Len(entries)) = entries

\* C17: nothing is retried: the probe is queried once, every command is
\* started at most once and never after a failure, every archive entry is
\* processed at most once.
C17_NoRetry == []C17_NothingTwice /\ [][C17_NoStepBack]_vars

C17_Witness ==
  /\ pc = "panicked"
  /\ Len(entries) = 2
  /\ entries[1] = entries[2]
  /\ Len(steps) = 2
  /\ steps[2].res = "nonzero"

\* C18: after a successful extraction every extracted file holds exactly
\* the content of the last entry written to its path.
C18_ContentIsLastEntry ==
  ExtractionDone =>
    \A i \in DOMAIN entries :
      ( /\ Last(entries[i].name) # ""
        /\ \A j \in DOMAIN entries :
             Dest(entries[j].name) = Dest(entries[i].name) => j <= i )
        => fs[Dest(entries[i].name)].content = entries[i].content

\* q lies under OUT_DIR.
InsideOutDir(q) ==
  Len(q) >= Len(out_dir) /\ SubSeq(q, 1, Len(out_dir)) = out_dir

\* C19: every node the extractor made lies under OUT_DIR, and every open,
\* copy and chmod that succeeded was made on a path under OUT_DIR, whatever
\* the entry names ("..", empty segments and a leading '/' included).
C19_StaysInsideOutputRoot ==
  /\ \A q \in DOMAIN fs : InsideOutDir(q)
  /\ \A k \in DOMAIN calls :
       (calls[k].res = "ok" /\ calls[k].op \in {"open", "copy", "chmod"}) =>
         InsideOutDir(Resolve(calls[k].path))

====
